---- MODULE Spec2Model ----
(***************************************************************************)
(* Buffon's needle Monte Carlo simulation (src/buffon_montecarlo.py).      *)
(*                                                                         *)
(* Numbers.  The program computes with floats; the model computes with     *)
(* exact integers on a grid:                                               *)
(*   - a length or coordinate v is held as the integer 4*v ("ticks"), so   *)
(*     1.0 is 4 and the viewing region (-3, 3) is <<-12, 12>>.  Lengths    *)
(*     are drawn from even tick counts, which makes L/2 and t/2 exact;     *)
(*   - an angle theta is held as the point <<5*sin(theta), 5*cos(theta)>>  *)
(*     of the circle of radius 5, for the six angles of [0, pi) where both *)
(*     coordinates are integers (0, atan(3/4), atan(4/3), pi/2 and the two *)
(*     obtuse mirror images);                                              *)
(*   - a line end point drawn by draw_needle is held in fifths of a tick;  *)
(*   - the estimate of pi is held as the fraction num/den, not reduced.    *)
(* rng.uniform(a, b) is a + (b - a) * random(): the model draws random()   *)
(* from the fractions k / RngSteps, k in 0..RngSteps.                      *)
(***************************************************************************)
EXTENDS Integers, Sequences, FiniteSets

VARIABLES
    pc,           \* where the program is
    input,        \* the text typed at the prompt (a sequence of characters)
    warned,       \* "Invalid input. Using default N=300." was printed
    N, L, t,      \* run_simulation's arguments
    state,        \* the counters {"i": ..., "crosses": ...} of one run
    frame,        \* frames FuncAnimation has delivered so far (of range(N))
    nd,           \* the needle of the latest trial
    ln,           \* the line segment draw_needle plotted for it
    pi_hat,       \* the latest estimate
    text_counts,  \* the counts shown in the overlay
    err,          \* the exception that ended the call, "" when none
    drops,        \* calls of drop_one_needle so far
    ests          \* calls of estimate_pi so far

vars == <<pc, input, warned, N, L, t, state, frame, nd, ln, pi_hat,
          text_counts, err, drops, ests>>

-----------------------------------------------------------------------------
(* Bounds of the model *)

MaxN == 2
RngSteps == 3
MaxInputLen == 3
MaxCount == 3

(* Program constants, in ticks where they are lengths *)

DefaultN == 300
DefaultLen == 4

xlim == <<-12, 12>>
ylim == <<-12, 12>>

\* Geometries <<L, t>> a caller may hand over: every pair of the lengths 0,
\* 0.5 and 1.0 (L > t and t = 0 included).
GeomVals == {0, 2, 4}
Geoms == GeomVals \X GeomVals

\* The same, and L = t = 7.0: a needle longer than the viewing region is wide.
WideGeoms == Geoms \cup {<<28, 28>>}

\* Trial counts handed to run_simulation: nothing checks N, and __main__
\* passes on whatever int() returns, -1 for the input "-1".
NArgs == (-1) .. MaxN

\* The angles of [0, pi) the sampler can draw here, as <<5 sin, 5 cos>>.
Thetas == {<<0, 5>>, <<3, 4>>, <<4, 3>>, <<5, 0>>, <<4, -3>>, <<3, -4>>}

Theta0 == <<0, 5>>
ThetaHalfPi == <<5, 0>>

\* The outcomes of random.Random(): one draw of random() is k / RngSteps.
Draws == 0 .. RngSteps
RngOutcomes == [x : Draws, y : Draws, theta : Thetas]

-----------------------------------------------------------------------------
(* Arithmetic *)

Min(a, b) == IF a <= b THEN a ELSE b

\* v / 2, exact on the even tick counts of Geoms.
Half(v) == v \div 2

\* Python's a % b: the result has the sign of the divisor b (b # 0).
PyMod(a, b) == IF b > 0 THEN a % b ELSE 0 - ((0 - a) % (0 - b))

\* math.sin and np.cos of a sampled angle, times 5.
sin(theta) == theta[1]
cos(theta) == theta[2]

\* rng.uniform(a, b) = a + (b - a) * random(), with random() = k / RngSteps.
uniform(a, b, k) == a + ((b - a) * k) \div RngSteps

-----------------------------------------------------------------------------
(* The Needle dataclass, and "no needle yet" *)

Needle(x, y, theta, crosses) ==
    [x |-> x, y |-> y, theta |-> theta, crosses |-> crosses]

NoNeedle == [x |-> 0, y |-> 0, theta |-> <<0, 0>>, crosses |-> FALSE]

-----------------------------------------------------------------------------
(* drop_one_needle *)

d_to_line_below(y, tt) == PyMod(y, tt)

\* Distance from the needle center to the nearest line.
d_to_line(y, tt) == Min(PyMod(y, tt), tt - PyMod(y, tt))

Crosses_strict(l, theta, d) == Half(l) * sin(theta) > 5 * d

\* (L/2) * math.sin(theta) >= d_to_line, both sides times 5.
Crosses(l, theta, d) == Half(l) * sin(theta) >= 5 * d

drop_one_needle(l, tt, xl, yl, rng) ==
    LET x == uniform(xl[1] + Half(l), xl[2] - Half(l), rng.x)
        y == uniform(yl[1] + Half(tt), yl[2] - Half(tt), rng.y)
        theta == rng.theta
    IN  Needle(x, y, theta, Crosses(l, theta, d_to_line(y, tt)))

-----------------------------------------------------------------------------
(* estimate_pi *)

NoEstimate == [kind |-> "none", num |-> 0, den |-> 0]
Inf == [kind |-> "inf", num |-> 0, den |-> 0]
ZeroDivision == [kind |-> "ZeroDivisionError", num |-> 0, den |-> 0]

estimate_pi_unguarded(crosses, total, l, tt) ==
    IF crosses * tt = 0
    THEN ZeroDivision
    ELSE [kind |-> "float", num |-> 2 * l * total, den |-> crosses * tt]

estimate_pi(crosses, total, l, tt) ==
    IF crosses = 0
    THEN Inf
    ELSE IF crosses * tt = 0
         THEN ZeroDivision
         ELSE [kind |-> "float", num |-> 2 * l * total, den |-> crosses * tt]

-----------------------------------------------------------------------------
(* draw_needle: the end points <<x0, x1, y0, y1>>, in fifths of a tick *)

NoLine == <<>>

draw_needle(needle, l) ==
    LET dx == Half(l) * cos(needle.theta)
        dy == Half(l) * sin(needle.theta)
    IN  <<5 * needle.x - dx, 5 * needle.x + dx,
          5 * needle.y - dy, 5 * needle.y + dy>>

-----------------------------------------------------------------------------
(* The prompt of __main__: int(input(...).strip()) *)

Alphabet == {" ", "-", "0", "1", "2", "x"}

Inputs == UNION {[1 .. n -> Alphabet] : n \in 0 .. MaxInputLen}

Digits == <<"0", "1", "2", "3", "4", "5", "6", "7", "8", "9">>

IsDigit(c) == \E k \in 1 .. 10 : Digits[k] = c

DigitVal(c) == (CHOOSE k \in 1 .. 10 : Digits[k] = c) - 1

\* str.strip(): white space removed at both ends.
RECURSIVE strip(_)
strip(s) ==
    IF s = <<>> THEN s
    ELSE IF Head(s) = " " THEN strip(Tail(s))
    ELSE IF s[Len(s)] = " " THEN strip(SubSeq(s, 1, Len(s) - 1))
    ELSE s

\* The value of a run of decimal digits.
RECURSIVE ToNat(_)
ToNat(s) ==
    IF s = <<>> THEN 0
    ELSE 10 * ToNat(SubSeq(s, 1, Len(s) - 1)) + DigitVal(s[Len(s)])

AllDigits(s) == s # <<>> /\ \A k \in 1 .. Len(s) : IsDigit(s[k])

\* int(s): an optional sign and decimal digits; anything else raises
\* ValueError (ok = FALSE).
int(s) ==
    IF AllDigits(s) THEN [ok |-> TRUE, val |-> ToNat(s)]
    ELSE IF s # <<>> /\ Head(s) = "-" /\ AllDigits(Tail(s))
         THEN [ok |-> TRUE, val |-> 0 - ToNat(Tail(s))]
         ELSE [ok |-> FALSE, val |-> 0]

\* try: N = int(...) except Exception: N = 300, with the warning.
prompt_N(s) ==
    LET r == int(strip(s))
    IN  IF r.ok THEN [N |-> r.val, warned |-> FALSE]
                ELSE [N |-> DefaultN, warned |-> TRUE]

-----------------------------------------------------------------------------
(* run_simulation *)

ZeroState == [i |-> 0, crosses |-> 0]

InvalidGeometry_swapped(l, tt) == l < tt

\* if L > t: raise ValueError("Requires L <= t")
InvalidGeometry(l, tt) == l > tt

count_trial_double(st, needle) ==
    [i |-> st.i + 1,
     crosses |-> st.crosses + (IF needle.crosses THEN 2 ELSE 0)]

count_trial_every(st, needle) ==
    [i |-> st.i + 1, crosses |-> st.crosses + 1]

\* state["i"] += 1; if nd.crosses: state["crosses"] += 1
count_trial(st, needle) ==
    [i |-> st.i + 1,
     crosses |-> st.crosses + (IF needle.crosses THEN 1 ELSE 0)]

\* The state every entry point starts from, but for pc and the arguments.
Fresh ==
    /\ warned = FALSE
    /\ state = ZeroState
    /\ frame = 0
    /\ nd = NoNeedle
    /\ ln = NoLine
    /\ pi_hat = NoEstimate
    /\ text_counts = <<>>
    /\ err = ""
    /\ drops = 0
    /\ ests = 0

\* A caller hands run_simulation a trial count and a geometry.
Init ==
    /\ pc = "call"
    /\ input = <<>>
    /\ N \in NArgs
    /\ \E g \in Geoms : L = g[1] /\ t = g[2]
    /\ Fresh

\* The body of run_simulation up to plt.show(): the geometry check, the
\* figure (make_base_figure divides ylim by t), the counters, the animation.
\* init() blanks the two overlay texts, which are blank already; speed_ms
\* only sets the timer interval.
RunSimulation ==
    /\ pc = "call"
    /\ IF InvalidGeometry(L, t)
       THEN pc' = "error" /\ err' = "ValueError"
       ELSE IF t = 0
            THEN pc' = "error" /\ err' = "ZeroDivisionError"
            ELSE pc' = "show" /\ err' = err
    /\ state' = ZeroState
    /\ UNCHANGED <<input, warned, N, L, t, frame, nd, ln, pi_hat,
                   text_counts, drops, ests>>

\* One frame of the animation: update(_).
Update ==
    /\ pc = "show"
    /\ frame < N
    /\ \E rng \in RngOutcomes :
         LET needle == drop_one_needle(L, t, xlim, ylim, rng)
             st == count_trial(state, needle)
         IN  /\ nd' = needle
             /\ state' = st
             /\ ln' = draw_needle(needle, L)
             /\ pi_hat' = estimate_pi(st.crosses, st.i, L, t)
             /\ text_counts' = <<st.i, st.crosses>>
    /\ frame' = frame + 1
    /\ drops' = drops + 1
    /\ ests' = ests + 1
    /\ UNCHANGED <<pc, input, warned, N, L, t, err>>

\* range(N) is exhausted and repeat is off: the animation stops.
Finish ==
    /\ pc = "show"
    /\ frame >= N
    /\ pc' = "done"
    /\ UNCHANGED <<input, warned, N, L, t, state, frame, nd, ln, pi_hat,
                   text_counts, err, drops, ests>>

Next == RunSimulation \/ Update \/ Finish

Spec == Init /\ [][Next]_vars

\* The same calls, the geometry drawn from WideGeoms.
InitWide ==
    /\ pc = "call"
    /\ input = <<>>
    /\ N \in NArgs
    /\ \E g \in WideGeoms : L = g[1] /\ t = g[2]
    /\ Fresh

SpecWide == InitWide /\ [][Next]_vars

-----------------------------------------------------------------------------
(* __main__: the prompt, then run_simulation(N, speed_ms=10) with the       *)
(* default geometry L = t = 1.0.  This specification follows the program    *)
(* from the prompt to the opening of the window; the run of the animation   *)
(* for a given N is that of Spec.                                           *)

InitMain ==
    /\ pc = "main"
    /\ input \in Inputs
    /\ N = 0
    /\ L = DefaultLen
    /\ t = DefaultLen
    /\ Fresh

Main ==
    /\ pc = "main"
    /\ N' = prompt_N(input).N
    /\ warned' = prompt_N(input).warned
    /\ pc' = "call"
    /\ UNCHANGED <<input, L, t, state, frame, nd, ln, pi_hat, text_counts,
                   err, drops, ests>>

NextMain == Main \/ RunSimulation

SpecMain == InitMain /\ [][NextMain]_vars

-----------------------------------------------------------------------------
(* The two core functions called on their own, on arguments of the caller's *)
(* choice: state holds estimate_pi's counts (crosses, total), L and t the   *)
(* geometry, L > t and t = 0 included (run_simulation never passes those).  *)

InitFn ==
    /\ pc = "fn"
    /\ input = <<>>
    /\ N = 0
    /\ \E g \in Geoms : L = g[1] /\ t = g[2]
    /\ warned = FALSE
    /\ state \in [i : 0 .. MaxCount, crosses : 0 .. MaxCount]
    /\ frame = 0
    /\ nd = NoNeedle
    /\ ln = NoLine
    /\ pi_hat = NoEstimate
    /\ text_counts = <<>>
    /\ err = ""
    /\ drops = 0
    /\ ests = 0

\* drop_one_needle(L, t, xlim, ylim, rng): it has no check of L against t;
\* y % t raises ZeroDivisionError for t = 0, otherwise it returns a Needle.
FnDrop ==
    /\ pc = "fn"
    /\ IF t = 0
       THEN nd' = nd /\ err' = "ZeroDivisionError"
       ELSE /\ \E rng \in RngOutcomes :
                  nd' = drop_one_needle(L, t, xlim, ylim, rng)
            /\ err' = err
    /\ drops' = drops + 1
    /\ pc' = "fn_drop"
    /\ UNCHANGED <<input, warned, N, L, t, state, frame, ln, pi_hat,
                   text_counts, ests>>

\* estimate_pi(crosses, total, L, t).
FnEstimate ==
    /\ pc = "fn"
    /\ LET r == estimate_pi(state.crosses, state.i, L, t)
       IN  /\ pi_hat' = r
           /\ err' = IF r.kind = "ZeroDivisionError" THEN r.kind ELSE err
    /\ ests' = ests + 1
    /\ pc' = "fn_est"
    /\ UNCHANGED <<input, warned, N, L, t, state, frame, nd, ln,
                   text_counts, drops>>

NextFn == FnDrop \/ FnEstimate

SpecFn == InitFn /\ [][NextFn]_vars

-----------------------------------------------------------------------------
(* Properties *)

Sampled == nd # NoNeedle

\* C1: a call of run_simulation with L > t ends in ValueError before any
\* simulation work: no needle is sampled, update never runs, the counters
\* never advance.
C1_FailFast ==
    (pc # "call" /\ L > t) =>
        /\ pc = "error"
        /\ err = "ValueError"
        /\ drops = 0
        /\ ests = 0
        /\ frame = 0
        /\ nd = NoNeedle
        /\ state = ZeroState

C1_Witness == pc = "error" /\ err = "ValueError" /\ L > t

\* C2: in every state of a run, 0 <= crossings <= trials_completed.
C2_CountersOrdered == 0 <= state.crosses /\ state.crosses <= state.i

C2_Witness == pc = "show" /\ state.i = 2 /\ state.crosses = 2

\* C3: the counters start at 0; every trial adds exactly 1 to
\* trials_completed and 1 to crossings iff its needle crosses (0 otherwise);
\* no other step changes a counter.
C3_Monotone ==
    [][/\ (pc = "call" /\ pc' = "show") => state' = ZeroState
       /\ IF frame' # frame
          THEN /\ state'.i = state.i + 1
               /\ state'.crosses =
                      state.crosses + (IF nd'.crosses THEN 1 ELSE 0)
          ELSE pc # "call" => state' = state]_vars

C3_Witness == pc = "done" /\ state.i = 2 /\ state.crosses = 1

\* C4: for every trial count N handed to run_simulation with a valid
\* geometry, the run ends with trials_completed = N, the sampler and the
\* estimator each called exactly N times.
C4_ExactlyN ==
    pc = "done" => (state.i = N /\ drops = N /\ ests = N)

\* C5: at the prompt every input that is not a valid positive integer
\* (unparsable text, zero, a negative integer) gives N = 300 with the
\* warning; every valid positive integer is used as N unchanged.
C5_Fallback ==
    pc # "main" =>
        LET r == int(strip(input))
        IN  IF r.ok /\ r.val > 0
            THEN N = r.val /\ ~warned
            ELSE N = DefaultN /\ warned

C7_NeverCrossesAtZero ==
    (Sampled /\ nd.theta = Theta0) => ~nd.crosses

\* C7 as amended: for L <= t and a spacing t > 0, a needle with theta = 0
\* crosses exactly when its center lies on a grid line (y mod t = 0).
C7_CrossesAtZeroIffOnLine ==
    (Sampled /\ nd.theta = Theta0 /\ t > 0) =>
        (nd.crosses <=> (PyMod(nd.y, t) = 0))

C7_Witness ==
    /\ Sampled
    /\ nd.theta = Theta0
    /\ t > 0
    /\ PyMod(nd.y, t) = 0
    /\ nd.crosses

\* C8 as claimed: for L = t and theta = pi/2 the needle crosses iff its
\* center lies on a grid line.
C8_CrossesIffOnLine ==
    (Sampled /\ nd.theta = ThetaHalfPi /\ L = t) =>
        (nd.crosses <=> (PyMod(nd.y, t) = 0))

\* C8 as amended: for L = t and theta = pi/2 the needle crosses wherever
\* its center lies.
C8_AlwaysCrosses ==
    (Sampled /\ nd.theta = ThetaHalfPi /\ L = t) => nd.crosses

C8_Witness ==
    /\ Sampled
    /\ nd.theta = ThetaHalfPi
    /\ L = t
    /\ PyMod(nd.y, t) # 0
    /\ nd.crosses

\* C9: drop_one_needle called with L > t ends in an error and returns no
\* Needle.
C9_SamplerRejects ==
    (pc = "fn_drop" /\ L > t) => (err # "" /\ nd = NoNeedle)

\* C10: for every geometry run_simulation accepts, the center of every
\* needle lies in the padded region and both end points drawn by
\* draw_needle lie inside the viewing region.
C10_NeedleInside ==
    Sampled =>
        /\ xlim[1] + Half(L) <= nd.x /\ nd.x <= xlim[2] - Half(L)
        /\ ylim[1] + Half(t) <= nd.y /\ nd.y <= ylim[2] - Half(t)
        /\ \A k \in {1, 2} : 5 * xlim[1] <= ln[k] /\ ln[k] <= 5 * xlim[2]
        /\ \A k \in {3, 4} : 5 * ylim[1] <= ln[k] /\ ln[k] <= 5 * ylim[2]

====
